---------------------------- MODULE Spec2Model ----------------------------
(***************************************************************************)
(* ARC-X archive engine: classification and level policy (utils.py), the   *)
(* sequential archive builder and the multithreaded compressor             *)
(* (compressor.py), and the two extractors (extractor.py, compressor.py).  *)
(*                                                                         *)
(* Strings are sequences of one-character strings, so that splitext,       *)
(* lower() and the '.zst' suffix are computed, not assumed.                *)
(***************************************************************************)
EXTENDS Integers, Sequences, FiniteSets, TLC

(***************************************************************************)
(* utils.py: extension lists                                               *)
(***************************************************************************)
TEXTURE_EXTENSIONS ==
    { <<".", "p", "n", "g">>,
      <<".", "j", "p", "g">>,
      <<".", "j", "p", "e", "g">>,
      <<".", "t", "g", "a">>,
      <<".", "b", "m", "p">>,
      <<".", "g", "i", "f">>,
      <<".", "t", "i", "f">>,
      <<".", "t", "i", "f", "f">>,
      <<".", "d", "d", "s">>,
      <<".", "k", "t", "x">>,
      <<".", "p", "s", "d">> }

AUDIO_EXTENSIONS ==
    { <<".", "m", "p", "3">>,
      <<".", "w", "a", "v">>,
      <<".", "o", "g", "g">>,
      <<".", "f", "l", "a", "c">>,
      <<".", "a", "a", "c">>,
      <<".", "w", "m", "a">>,
      <<".", "m", "4", "a">>,
      <<".", "a", "i", "f", "f">> }

MODEL_EXTENSIONS ==
    { <<".", "f", "b", "x">>,
      <<".", "o", "b", "j">>,
      <<".", "3", "d", "s">>,
      <<".", "b", "l", "e", "n", "d">>,
      <<".", "d", "a", "e">>,
      <<".", "g", "l", "t", "f">>,
      <<".", "g", "l", "b">>,
      <<".", "s", "t", "l">>,
      <<".", "p", "l", "y">> }

\* The script list with an extension of the texture list in it.
SCRIPT_EXTENSIONS_overlapping ==
    { <<".", "t", "x", "t">>,
      <<".", "p", "n", "g">>,
      <<".", "j", "s", "o", "n">>,
      <<".", "x", "m", "l">>,
      <<".", "l", "u", "a">>,
      <<".", "p", "y">>,
      <<".", "j", "s">>,
      <<".", "c", "s">>,
      <<".", "c", "p", "p">>,
      <<".", "c">>,
      <<".", "h">> }

SCRIPT_EXTENSIONS ==
    { <<".", "t", "x", "t">>,
      <<".", "j", "s", "o", "n">>,
      <<".", "x", "m", "l">>,
      <<".", "l", "u", "a">>,
      <<".", "p", "y">>,
      <<".", "j", "s">>,
      <<".", "c", "s">>,
      <<".", "c", "p", "p">>,
      <<".", "c">>,
      <<".", "h">> }

(***************************************************************************)
(* str.lower() and str.upper() on the characters the model uses            *)
(***************************************************************************)
LowerOf ==
    [ A |-> "a", B |-> "b", C |-> "c", D |-> "d", E |-> "e", F |-> "f",
      G |-> "g", H |-> "h", I |-> "i", J |-> "j", K |-> "k", L |-> "l",
      M |-> "m", N |-> "n", O |-> "o", P |-> "p", Q |-> "q", R |-> "r",
      S |-> "s", T |-> "t", U |-> "u", V |-> "v", W |-> "w", X |-> "x",
      Y |-> "y", Z |-> "z" ]

lower_char(c) == IF c \in DOMAIN LowerOf THEN LowerOf[c] ELSE c

upper_char(c) ==
    IF \E u \in DOMAIN LowerOf : LowerOf[u] = c
    THEN CHOOSE u \in DOMAIN LowerOf : LowerOf[u] = c
    ELSE c

lower(s) == [i \in 1..Len(s) |-> lower_char(s[i])]

upper(s) == [i \in 1..Len(s) |-> upper_char(s[i])]

\* str.capitalize()-like mixed case: the first letter after the dot upper-cased.
mixed(s) == [i \in 1..Len(s) |-> IF i = 2 THEN upper_char(s[i]) ELSE s[i]]

(***************************************************************************)
(* os.path (posixpath): rfind, splitext, dirname                           *)
(***************************************************************************)
\* str.rfind as a 1-based index, 0 when the character does not occur
\* (Python's -1).
rfind(p, c) ==
    IF \E i \in 1..Len(p) : p[i] = c
    THEN CHOOSE i \in 1..Len(p) : p[i] = c /\ \A j \in (i+1)..Len(p) : p[j] # c
    ELSE 0

\* genericpath._splitext(p, '/', None, '.')[1]: the extension starts at the
\* last dot of the last path component, unless that component consists of
\* leading dots only up to that dot.
splitext_ext(p) ==
    LET sepIndex == rfind(p, "/")
        dotIndex == rfind(p, ".")
    IN  IF dotIndex > sepIndex
           /\ \E k \in (sepIndex + 1)..(dotIndex - 1) : p[k] # "."
        THEN SubSeq(p, dotIndex, Len(p))
        ELSE <<>>

\* posixpath.dirname for a relative path: everything before the last '/'.
dirname(p) ==
    LET i == rfind(p, "/")
    IN  IF i = 0 THEN <<>> ELSE SubSeq(p, 1, i - 1)

(***************************************************************************)
(* utils.py: is_texture, is_audio, is_model, is_script                     *)
(***************************************************************************)
is_texture_nolower(file_path) == splitext_ext(file_path) \in TEXTURE_EXTENSIONS

is_texture(file_path) == lower(splitext_ext(file_path)) \in TEXTURE_EXTENSIONS

is_audio(file_path) == lower(splitext_ext(file_path)) \in AUDIO_EXTENSIONS

is_model(file_path) == lower(splitext_ext(file_path)) \in MODEL_EXTENSIONS

is_script(file_path) == lower(splitext_ext(file_path)) \in SCRIPT_EXTENSIONS

\* utils.get_file_category
get_file_category(file_path) ==
    IF is_texture(file_path) THEN "Textur"
    ELSE IF is_audio(file_path) THEN "Audio"
    ELSE IF is_model(file_path) THEN "Modell"
    ELSE IF is_script(file_path) THEN "Script"
    ELSE "Sonstige"

\* A slip in the level table: textures given the model level.
get_compression_level_by_type_swapped(file_path) ==
    IF is_script(file_path) THEN 12
    ELSE IF is_texture(file_path) THEN 6
    ELSE IF is_audio(file_path) THEN 2
    ELSE IF is_model(file_path) THEN 6
    ELSE 3

\* utils.get_compression_level_by_type
get_compression_level_by_type(file_path) ==
    IF is_script(file_path) THEN 12
    ELSE IF is_texture(file_path) THEN 5
    ELSE IF is_audio(file_path) THEN 2
    ELSE IF is_model(file_path) THEN 6
    ELSE 3

\* Python's None for the compression_level argument (the default of
\* create_arcx_archive and of --level); every real level is in 1..22.
None == 0

\* The override never consulted.
file_level_by_type_only(file_path, compression_level) ==
    get_compression_level_by_type(file_path)

\* create_arcx_archive, lines 292-295: the level used for one file.
file_level(file_path, compression_level) ==
    IF compression_level = None
    THEN get_compression_level_by_type(file_path)
    ELSE compression_level

\* The category chain written out in create_arcx_archive (lines 281-290),
\* process_file (491-500) and scan_directory (80-89).
category_of(file_path) ==
    IF is_texture(file_path) THEN "Textur"
    ELSE IF is_audio(file_path) THEN "Audio"
    ELSE IF is_model(file_path) THEN "Modell"
    ELSE IF is_script(file_path) THEN "Script"
    ELSE "Sonstige"

Categories == {"Textur", "Audio", "Modell", "Script", "Sonstige"}

\* argparse: --level has choices=range(1, 23).
Levels == 1..22

(***************************************************************************)
(* State                                                                   *)
(***************************************************************************)
VARIABLES
    cl_pc,          \* classifier run: "init", "classified", "resolved"
    cl_path,        \* the file_path given to get_file_category
    cl_level_arg,   \* the compression_level argument (None or 1..22)
    cl_category,    \* what get_file_category returned
    cl_level,       \* the level resolved for the file
    \* create_arcx_archive
    pc,             \* "walk", "returned" (stats returned), "raised"
    input_root,     \* what the input_dir argument names: "dir" or "missing"
    input_dir,      \* the os.walk of the source root: relative paths in order
    compression_level,  \* the compression_level argument
    walk_pos,       \* number of walked files already handled
    outcome,        \* per handled file, the point at which the filesystem failed it
    temp_dir,       \* the scratch directory: [state, files, dirs]
    metadata,       \* the manifest being built
    stats,          \* the statistics dict
    archive,        \* the container written: a sequence of entries
    \* extract_arcx_archive (extractor.py and compressor.py)
    x_pc,           \* "idle", "loop", "returned" (stats returned), "raised"
    x_impl,         \* "extractor" (extractor.py) or "compressor" (compressor.py)
    x_archive,      \* the container given to the extractor
    x_temp,         \* its scratch directory: "none", "exists", "removed"
    x_metadata,     \* the manifest it loaded
    x_pos,          \* number of manifest entries already handled
    x_results,      \* per handled entry: "ok", or "error" (caught and logged)
    x_stats,        \* the statistics dict
    output_dir,     \* the output root: [files, dirs]
    \* compress_directory_multithreaded
    mt_pc,          \* "idle", "pool" (executor running), "returned",
                    \* "archived" (main has packed the output into a container)
    files_to_process,   \* the work list: relative paths in os.walk order
    num_threads,    \* max_workers of the ThreadPoolExecutor
    task,           \* per submitted file: position in process_file and locals
    stats_lock,     \* the task holding the lock, 0 when free
    error_log_lock,
    completed_lock,
    mt_stats,       \* the shared statistics dict
    completed_files,    \* the progress counter of task_done_callback
    error_log,      \* entries appended to the error log file
    mt_output_dir   \* the destination directory: [files, dirs]

cl_vars == <<cl_pc, cl_path, cl_level_arg, cl_category, cl_level>>

build_vars ==
    <<pc, input_root, input_dir, compression_level, walk_pos, outcome,
      temp_dir, metadata, stats, archive>>

x_vars ==
    <<x_pc, x_impl, x_archive, x_temp, x_metadata, x_pos, x_results, x_stats,
      output_dir>>

mt_vars ==
    <<mt_pc, files_to_process, num_threads, task, stats_lock, error_log_lock,
      completed_lock, mt_stats, completed_files, error_log, mt_output_dir>>

vars == <<cl_vars, build_vars, x_vars, mt_vars>>

(***************************************************************************)
(* Classification and policy as a run over bounded inputs                  *)
(***************************************************************************)
KnownExtensions ==
    TEXTURE_EXTENSIONS \cup AUDIO_EXTENSIONS \cup MODEL_EXTENSIONS
        \cup SCRIPT_EXTENSIONS

\* Extensions as they appear on disk: every listed one in lower, upper and
\* mixed case, plus unlisted ones, a bare dot and none at all.
ExtInputs ==
    KnownExtensions
        \cup { upper(e) : e \in KnownExtensions }
        \cup { mixed(e) : e \in KnownExtensions }
        \cup { <<>>, <<".">>, <<".", "z", "s", "t">>, <<".", "p", "n">>,
               <<".", "p", "n", "g", "x">>, <<"p", "n", "g">> }

\* Directory parts: none, a plain one, one whose name holds a dot.
DirInputs == { <<>>, <<"d", "/">>, <<"d", ".", "x", "/">> }

\* File stems: empty (a dot-file such as '.png'), plain, and one with a dot.
StemInputs == { <<>>, <<"a">>, <<"a", ".", "b">> }

PathInputs == { d \o s \o e : d \in DirInputs, s \in StemInputs, e \in ExtInputs }

LevelArgs == {None} \cup Levels

ClassifyIdle ==
    /\ cl_pc = "idle"
    /\ cl_path = <<>>
    /\ cl_level_arg = None
    /\ cl_category = "?"
    /\ cl_level = 0

BuildIdle ==
    /\ pc = "idle"
    /\ input_dir = <<>>
    /\ compression_level = None
    /\ walk_pos = 0
    /\ outcome = <<>>
    /\ temp_dir = [state |-> "none"]
    /\ metadata = [files |-> <<>>]
    /\ stats = [total_files |-> 0]
    /\ archive = <<>>

ExtractIdle ==
    /\ x_pc = "idle"
    /\ x_impl = "none"
    /\ x_archive = <<>>
    /\ x_temp = "none"
    /\ x_metadata = [files |-> <<>>]
    /\ x_pos = 0
    /\ x_results = <<>>
    /\ x_stats = [total_files |-> 0]
    /\ output_dir = [files |-> <<>>, dirs |-> {}]

MtIdle ==
    /\ mt_pc = "idle"
    /\ files_to_process = <<>>
    /\ num_threads = 0
    /\ task = <<>>
    /\ stats_lock = 0
    /\ error_log_lock = 0
    /\ completed_lock = 0
    /\ mt_stats = [total_files |-> 0]
    /\ completed_files = 0
    /\ error_log = <<>>
    /\ mt_output_dir = [files |-> <<>>, dirs |-> {}]

InitClassify ==
    /\ cl_pc = "init"
    /\ cl_path \in PathInputs
    /\ cl_level_arg = None
    /\ cl_category = "?"
    /\ cl_level = 0
    /\ input_root = "dir"
    /\ BuildIdle
    /\ ExtractIdle
    /\ MtIdle

\* category = get_file_category(file_path)
Classify ==
    /\ cl_pc = "init"
    /\ cl_category' = get_file_category(cl_path)
    /\ cl_pc' = "classified"
    /\ UNCHANGED <<cl_path, cl_level_arg, cl_level>>
    /\ UNCHANGED <<build_vars, x_vars, mt_vars>>

\* create_arcx_archive lines 292-295 for one file and one --level argument
ResolveLevel ==
    /\ cl_pc = "classified"
    /\ \E lv \in LevelArgs :
        /\ cl_level_arg' = lv
        /\ cl_level' = file_level(cl_path, lv)
    /\ cl_pc' = "resolved"
    /\ UNCHANGED <<cl_path, cl_category>>
    /\ UNCHANGED <<build_vars, x_vars, mt_vars>>

NextClassify == Classify \/ ResolveLevel

SpecClassify == InitClassify /\ [][NextClassify]_vars

(***************************************************************************)
(* C5  Policy resolution: with no override the level resolved for a file   *)
(* is 12 for Script, 5 for Texture, 2 for Audio, 6 for Model and 3 for     *)
(* Other; with an override level L the level resolved is L, whatever the   *)
(* category.                                                               *)
(***************************************************************************)
DefaultLevelOf(category) ==
    CASE category = "Script" -> 12
      [] category = "Textur" -> 5
      [] category = "Audio" -> 2
      [] category = "Modell" -> 6
      [] category = "Sonstige" -> 3

C5_PolicyResolution ==
    cl_pc = "resolved" =>
        IF cl_level_arg = None
        THEN cl_level = DefaultLevelOf(cl_category)
        ELSE cl_level = cl_level_arg

\* A texture resolved in manual mode with level 9, after one resolved
\* automatically: here an upper-case texture with override 9.
C5_Witness ==
    /\ cl_pc = "resolved"
    /\ cl_category = "Textur"
    /\ cl_level_arg = 9
    /\ cl_level = 9
    /\ cl_path = <<"a", ".", "P", "N", "G">>

(***************************************************************************)
(* C6  Classification: the category depends only on the lower-cased        *)
(* extension (a.PNG and a.png are both Texture), and a path whose          *)
(* extension is in none of the lists, a path without extension and the     *)
(* empty path are Other (Sonstige).                                        *)
(***************************************************************************)
C6_Classification ==
    cl_pc = "classified" =>
        /\ \A q \in PathInputs :
            lower(splitext_ext(q)) = lower(splitext_ext(cl_path))
                => get_file_category(q) = cl_category
        /\ lower(splitext_ext(cl_path)) \notin KnownExtensions
                => cl_category = "Sonstige"
        /\ cl_path \in { <<"a", ".", "P", "N", "G">>, <<"a", ".", "p", "n", "g">> }
                => cl_category = "Textur"
        /\ cl_path = <<>> => cl_category = "Sonstige"

C6_Witness ==
    /\ cl_pc = "classified"
    /\ cl_path = <<"a", ".", "P", "N", "G">>
    /\ cl_category = "Textur"

(***************************************************************************)
(* C30  Classifier and policy agree: the four extension lists are pairwise *)
(* disjoint, so although get_file_category tests texture, audio, model,    *)
(* script and get_compression_level_by_type tests script, texture, audio,  *)
(* model, the level the latter returns for a path is the default level of  *)
(* the category the former returns for it.                                 *)
(***************************************************************************)
ExtensionLists ==
    <<TEXTURE_EXTENSIONS, AUDIO_EXTENSIONS, MODEL_EXTENSIONS, SCRIPT_EXTENSIONS>>

C30_ClassifierPolicyAgree ==
    /\ \A i, j \in 1..4 : i # j => ExtensionLists[i] \cap ExtensionLists[j] = {}
    /\ cl_pc \in {"classified", "resolved"} =>
            get_compression_level_by_type(cl_path) = DefaultLevelOf(cl_category)

\* d.x/a.b.JSON classified as a script, its level 12.
C30_Witness ==
    /\ cl_pc = "classified"
    /\ cl_path = <<"d", ".", "x", "/", "a", ".", "b", ".", "J", "S", "O", "N">>
    /\ cl_category = "Script"
    /\ get_compression_level_by_type(cl_path) = 12

(***************************************************************************)
(* Source trees                                                            *)
(***************************************************************************)
\* Most files a source tree holds.
MaxFiles == 3

\* Most files of one run that the filesystem fails.
MaxFaults == 2

\* The files a source tree may hold, in os.walk order (top-down: the files
\* of a directory before the files of its sub-directories): a, b.png, v.ogg,
\* a.zst/b, d/n.txt.
Universe ==
    << <<"a">>,
       <<"b", ".", "p", "n", "g">>,
       <<"v", ".", "o", "g", "g">>,
       <<"a", ".", "z", "s", "t", "/", "b">>,
       <<"d", "/", "n", ".", "t", "x", "t">> >>

\* The bytes of each file; a is empty.
Content(rel_path) ==
    CASE rel_path = Universe[1] -> <<>>
      [] rel_path = Universe[2] -> <<1, 2, 3>>
      [] rel_path = Universe[3] -> <<4>>
      [] rel_path = Universe[4] -> <<5, 6>>
      [] rel_path = Universe[5] -> <<7, 7>>

\* os.walk(input_dir) for the tree holding the files numbered in S.
Walk(S) ==
    LET idxs == [i \in 1..Len(Universe) |-> i]
        In(i) == i \in S
        kept == SelectSeq(idxs, In)
    IN  [k \in 1..Len(kept) |-> Universe[kept[k]]]

Trees == { S \in SUBSET (1..Len(Universe)) : Cardinality(S) <= MaxFiles }

\* What the input_dir argument may name.
Roots == {"dir", "missing"}

\* os.walk(input_dir) with the default onerror=None: the error of listing a
\* root that does not exist is swallowed and the walk yields nothing.
os_walk(root, S) == IF root = "missing" THEN <<>> ELSE Walk(S)

\* Where the filesystem may fail one compress_file call:
\*   isfile    the source is gone (line 143)
\*   open_src  the source cannot be opened for reading (line 175)
\*   open_dst  the destination cannot be opened for writing (line 176)
\*   copy      reading the source or writing the destination fails while
\*             streaming (line 178); the destination file exists by then
FaultPoints == {"isfile", "open_src", "open_dst", "copy"}

Range(f) == { f[x] : x \in DOMAIN f }

NFaults(o) == Cardinality({ i \in DOMAIN o : o[i] # "none" })

(***************************************************************************)
(* Codec adapter (zstandard) and the scratch filesystem                    *)
(***************************************************************************)
\* A zstd frame: the level it was written with, the bytes it carries and
\* whether the writer closed it.
ZstdFrame(data, level) == [level |-> level, payload |-> data, complete |-> TRUE]

\* What open(output_path, 'wb') leaves when the copy fails: a file with no
\* closed frame in it.
PartialFrame(level) == [level |-> level, payload |-> <<>>, complete |-> FALSE]

\* Bytes that are no zstd frame.
Garbage == [level |-> 0, payload |-> <<>>, complete |-> FALSE]

\* os.path.getsize of a compressed file: frame header, payload, and the
\* end mark of a closed frame.
FrameSize(frame) == 1 + Len(frame.payload) + (IF frame.complete THEN 1 ELSE 0)

\* ZstdDecompressor on a frame: the bytes, or failure on what is no closed
\* frame.
CanDecompress(frame) == frame.complete

Decompress(frame) == frame.payload

ZstSuffix == <<".", "z", "s", "t">>

\* The directories os.makedirs(d) has to find or create: d and its parents.
Ancestors(d) ==
    IF d = <<>> THEN {}
    ELSE {d} \cup { SubSeq(d, 1, i - 1) : i \in { j \in 1..Len(d) : d[j] = "/" } }

\* os.makedirs(d, exist_ok=True) raises FileExistsError when d or a parent
\* of d exists as a file.
MakedirsFails(fs, d) == \E a \in Ancestors(d) : a \in DOMAIN fs.files

Makedirs(fs, d) == [fs EXCEPT !.dirs = @ \cup Ancestors(d)]

WriteFile(fs, path, body) ==
    [fs EXCEPT !.files =
        [q \in DOMAIN fs.files \cup {path} |-> IF q = path THEN body ELSE fs.files[q]]]

EmptyFiles == [q \in {} |-> Garbage]

\* A finally clause that leaves the scratch directory in place.
rmtree_skipped(state) == state

\* shutil.rmtree(temp_dir, ignore_errors=True) in the finally clauses: the
\* state of the scratch directory afterwards.
rmtree(state) == "removed"

\* The scratch directory after the finally clause of create_arcx_archive.
Removed(fs) ==
    [state |-> rmtree(fs.state),
     files |-> IF rmtree(fs.state) = "removed" THEN EmptyFiles ELSE fs.files,
     dirs |-> IF rmtree(fs.state) = "removed" THEN {} ELSE fs.dirs]

\* compress_file(file_path, output_path, compression_level) with the
\* filesystem failing at `fault`: whether it raised, the sizes it returns,
\* and the scratch filesystem it leaves.
compress_file(rel_path, output_path, level, fault, fs) ==
    LET data == Content(rel_path)
        used == IF level = None THEN get_compression_level_by_type(rel_path) ELSE level
        destIsDir == output_path \in fs.dirs
    IN  IF fault = "isfile" \/ fault = "open_src" \/ fault = "open_dst" \/ destIsDir
        THEN [raised |-> TRUE, original_size |-> 0, compressed_size |-> 0, fs |-> fs]
        ELSE IF fault = "copy"
        THEN [raised |-> TRUE, original_size |-> 0, compressed_size |-> 0,
              fs |-> WriteFile(fs, output_path, PartialFrame(used))]
        ELSE [raised |-> FALSE,
              original_size |-> Len(data),
              compressed_size |-> FrameSize(ZstdFrame(data, used)),
              fs |-> WriteFile(fs, output_path, ZstdFrame(data, used))]

(***************************************************************************)
(* compressor.create_arcx_archive                                          *)
(***************************************************************************)
ZeroCategory == [count |-> 0, original_size |-> 0, compressed_size |-> 0]

\* lines 217-228
InitialStats ==
    [ total_files |-> 0,
      total_original_size |-> 0,
      total_compressed_size |-> 0,
      categories |-> [c \in Categories |-> ZeroCategory] ]

\* The mode written the wrong way round.
InitialMetadata_inverted(level) ==
    [ version |-> "1.0",
      created |-> "now",
      compression_mode |-> IF level = None THEN "manual" ELSE "automatic_by_type",
      compression_level |-> level,
      files |-> <<>> ]

\* lines 259-265
InitialMetadata(level) ==
    [ version |-> "1.0",
      created |-> "now",
      compression_mode |-> IF level = None THEN "automatic_by_type" ELSE "manual",
      compression_level |-> level,
      files |-> <<>> ]

\* The per-category counters left out.
AddToStats_totals_only(st, category, original_size, compressed_size) ==
    [st EXCEPT
        !.total_files = @ + 1,
        !.total_original_size = @ + original_size,
        !.total_compressed_size = @ + compressed_size]

\* lines 325-330
AddToStats(st, category, original_size, compressed_size) ==
    [st EXCEPT
        !.total_files = @ + 1,
        !.total_original_size = @ + original_size,
        !.total_compressed_size = @ + compressed_size,
        !.categories[category].count = @ + 1,
        !.categories[category].original_size = @ + original_size,
        !.categories[category].compressed_size = @ + compressed_size]

OverrideLevels == {None, 9}

Init ==
    /\ ClassifyIdle
    /\ pc = "walk"
    /\ input_root \in Roots
    /\ \E S \in Trees : input_dir = os_walk(input_root, S)
    /\ compression_level \in OverrideLevels
    /\ walk_pos = 0
    /\ outcome = <<>>
    /\ temp_dir = [state |-> "exists", files |-> EmptyFiles, dirs |-> {}]
    /\ metadata = InitialMetadata(compression_level)
    /\ stats = InitialStats
    /\ archive = <<>>
    /\ ExtractIdle
    /\ MtIdle

\* One iteration of the loop over os.walk (lines 268-338), the filesystem
\* failing this file at `fault` or not at all.
CompressNext(fault) ==
    /\ pc = "walk"
    /\ walk_pos < Len(input_dir)
    /\ fault # "none" => NFaults(outcome) < MaxFaults
    /\ LET rel_path == input_dir[walk_pos + 1]
           temp_output_path == rel_path \o ZstSuffix
           dir == dirname(temp_output_path)
       IN  IF MakedirsFails(temp_dir, dir)
           THEN \* line 277 raises outside the try: the run ends in the
                \* finally clause.
                /\ fault = "none"
                /\ pc' = "raised"
                /\ temp_dir' = Removed(temp_dir)
                /\ outcome' = Append(outcome, "makedirs")
                /\ walk_pos' = walk_pos + 1
                /\ UNCHANGED <<metadata, stats, archive>>
           ELSE LET category == category_of(rel_path)
                    file_compression_level == file_level(rel_path, compression_level)
                    r == compress_file(rel_path, temp_output_path,
                                       file_compression_level, fault,
                                       Makedirs(temp_dir, dir))
                IN  /\ temp_dir' = r.fs
                    /\ outcome' = Append(outcome, fault)
                    /\ walk_pos' = walk_pos + 1
                    /\ pc' = "walk"
                    /\ archive' = archive
                    /\ IF r.raised
                       THEN UNCHANGED <<metadata, stats>>
                       ELSE /\ metadata' =
                                [metadata EXCEPT !.files = Append(@,
                                    [ path |-> rel_path,
                                      category |-> category,
                                      compression_level |-> file_compression_level,
                                      original_size |-> r.original_size,
                                      compressed_size |-> r.compressed_size ])]
                            /\ stats' = AddToStats(stats, category,
                                            r.original_size, r.compressed_size)
    /\ UNCHANGED <<input_root, input_dir, compression_level>>
    /\ UNCHANGED <<cl_vars, x_vars, mt_vars>>

ManifestName ==
    <<"a", "r", "c", "x", "_", "m", "e", "t", "a", "d", "a", "t", "a",
      ".", "j", "s", "o", "n">>

\* os.path.basename
basename(p) == SubSeq(p, rfind(p, "/") + 1, Len(p))

\* The files of the scratch directory in walk order.
ScratchWalk(fs) ==
    LET names == [i \in 1..Len(Universe) |-> Universe[i] \o ZstSuffix]
        Present(n) == n \in DOMAIN fs.files
    IN  SelectSeq(names, Present)

\* The members stored under their bare file names (zipf.write(file_path,
\* file)) instead of their paths relative to the scratch directory.
ZipOf_flat(meta, fs) ==
    LET Member(n) == basename(n) # ManifestName
        names == SelectSeq(ScratchWalk(fs), Member)
    IN  <<[name |-> ManifestName, kind |-> "json", json |-> meta]>>
        \o [i \in 1..Len(names) |->
              [name |-> basename(names[i]), kind |-> "blob",
               frame |-> fs.files[names[i]]]]

\* The manifest added after the members instead of before them.
ZipOf_manifest_last(meta, fs) ==
    LET Member(n) == basename(n) # ManifestName
        names == SelectSeq(ScratchWalk(fs), Member)
    IN  [i \in 1..Len(names) |->
              [name |-> names[i], kind |-> "blob", frame |-> fs.files[names[i]]]]
        \o <<[name |-> ManifestName, kind |-> "json", json |-> meta]>>

\* Lines 340-360: the manifest entry first, then every file found in the
\* scratch directory whose name is not arcx_metadata.json.
ZipOf(meta, fs) ==
    LET Member(n) == basename(n) # ManifestName
        names == SelectSeq(ScratchWalk(fs), Member)
    IN  <<[name |-> ManifestName, kind |-> "json", json |-> meta]>>
        \o [i \in 1..Len(names) |->
              [name |-> names[i], kind |-> "blob", frame |-> fs.files[names[i]]]]

\* After the loop: write the manifest, zip the scratch directory, return
\* the stats; the finally clause removes the scratch directory.
WriteArchive ==
    /\ pc = "walk"
    /\ walk_pos = Len(input_dir)
    /\ archive' = ZipOf(metadata, temp_dir)
    /\ temp_dir' = Removed(temp_dir)
    /\ pc' = "returned"
    /\ UNCHANGED <<input_root, input_dir, compression_level, walk_pos, outcome,
                   metadata, stats>>
    /\ UNCHANGED <<cl_vars, x_vars, mt_vars>>

(***************************************************************************)
(* Containers given to the extractors                                      *)
(***************************************************************************)
\* The extractors take any container file.  Besides the builder's own
\* output, the model feeds them that output changed in one place:
\*   no_manifest   without the arcx_metadata.json entry
\*   bad_json      arcx_metadata.json is no JSON
\*   version       the manifest's version is "9.9"
\*   no_version    the manifest has no version field
\*   size          entry i records an original_size one byte too large
\*   drop_member   the member of entry i is missing
\*   corrupt       the member of entry i is no zstd frame
\*   category      entry i records a category outside the five known ones
\*   traverse      entry i records the path ../x/e
ManifestChanges == {"none", "no_manifest", "bad_json", "version", "no_version"}

EntryChanges == {"size", "drop_member", "corrupt", "category", "traverse"}

\* A manifest path that leaves the output root.
TraversalPath == <<".", ".", "/", "x", "/", "e">>

HasManifestEntry(arch) == \E k \in DOMAIN arch : arch[k].name = ManifestName

ManifestEntry(arch) == arch[CHOOSE k \in DOMAIN arch : arch[k].name = ManifestName]

HasMember(arch, name) == \E k \in DOMAIN arch : arch[k].name = name

MemberOf(arch, name) == arch[CHOOSE k \in DOMAIN arch : arch[k].name = name]

WithoutField(r, f) == [k \in DOMAIN r \ {f} |-> r[k]]

WithoutEntry(arch, name) ==
    LET Keep(e) == e.name # name
    IN  SelectSeq(arch, Keep)

WithManifest(arch, meta) ==
    [k \in DOMAIN arch |->
        IF arch[k].name = ManifestName
        THEN [name |-> ManifestName, kind |-> "json", json |-> meta]
        ELSE arch[k]]

Changes(arch) ==
    { [kind |-> c, entry |-> 0] : c \in ManifestChanges }
        \cup { [kind |-> c, entry |-> i] :
                 c \in EntryChanges, i \in 1..Len(ManifestEntry(arch).json.files) }

Changed(arch, change) ==
    LET meta == ManifestEntry(arch).json
        i == change.entry
        member == IF i = 0 THEN <<>> ELSE meta.files[i].path \o ZstSuffix
    IN  CASE change.kind = "none" -> arch
          [] change.kind = "no_manifest" -> WithoutEntry(arch, ManifestName)
          [] change.kind = "bad_json" ->
                [k \in DOMAIN arch |->
                    IF arch[k].name = ManifestName
                    THEN [name |-> ManifestName, kind |-> "garbage"]
                    ELSE arch[k]]
          [] change.kind = "version" ->
                WithManifest(arch, [meta EXCEPT !.version = "9.9"])
          [] change.kind = "no_version" ->
                WithManifest(arch, WithoutField(meta, "version"))
          [] change.kind = "size" ->
                WithManifest(arch,
                    [meta EXCEPT !.files[i].original_size = @ + 1])
          [] change.kind = "drop_member" -> WithoutEntry(arch, member)
          [] change.kind = "corrupt" ->
                [k \in DOMAIN arch |->
                    IF arch[k].name = member
                    THEN [name |-> member, kind |-> "blob", frame |-> Garbage]
                    ELSE arch[k]]
          [] change.kind = "category" ->
                WithManifest(arch, [meta EXCEPT !.files[i].category = "Video"])
          [] change.kind = "traverse" ->
                WithManifest(arch, [meta EXCEPT !.files[i].path = TraversalPath])

(***************************************************************************)
(* extract_arcx_archive: extractor.py lines 29-158, compressor.py 675-822  *)
(***************************************************************************)
\* extractor.py lines 51-61
InitialExtractStats ==
    [ total_files |-> 0,
      total_size |-> 0,
      categories |-> [c \in Categories |-> [count |-> 0, size |-> 0]] ]

\* zipf.extract("arcx_metadata.json", temp_dir) and json.load: KeyError
\* when the entry is missing, JSONDecodeError when it is no JSON.
\* A reader that takes a missing or unreadable manifest for an empty one.
read_manifest_lenient(arch) ==
    IF HasManifestEntry(arch) /\ ManifestEntry(arch).kind = "json"
    THEN [raised |-> FALSE, metadata |-> ManifestEntry(arch).json]
    ELSE [raised |-> FALSE, metadata |-> [files |-> <<>>]]

read_manifest(arch) ==
    IF HasManifestEntry(arch) /\ ManifestEntry(arch).kind = "json"
    THEN [raised |-> FALSE, metadata |-> ManifestEntry(arch).json]
    ELSE [raised |-> TRUE, metadata |-> [files |-> <<>>]]

\* Up to the loop: create the output root and the scratch directory, read
\* the manifest, unpack the container into the scratch directory.  The
\* version is logged (metadata.get('version', ...)) and nothing else.
ExtractOpen(impl, change) ==
    /\ pc = "returned"
    /\ x_pc = "idle"
    /\ change \in Changes(archive)
    /\ x_impl' = impl
    /\ x_archive' = Changed(archive, change)
    /\ x_pos' = 0
    /\ x_results' = <<>>
    /\ output_dir' = [files |-> EmptyFiles, dirs |-> {}]
    /\ LET m == read_manifest(x_archive')
       IN  IF m.raised
           THEN /\ x_pc' = "raised"
                /\ x_temp' = rmtree("exists")
                /\ UNCHANGED <<x_metadata, x_stats>>
           ELSE /\ x_pc' = "loop"
                /\ x_temp' = "exists"
                /\ x_metadata' = m.metadata
                /\ x_stats' = IF impl = "extractor"
                              THEN InitialExtractStats ELSE InitialStats
    /\ UNCHANGED <<cl_vars, build_vars, mt_vars>>

\* with open(compressed_path, 'rb'), open(output_path, 'wb'): decompress.
\* The member is opened first, then the output file is created, then the
\* stream is copied: [raised, fs].
decompress_to(arch, compressed_name, output_path, fs) ==
    IF ~HasMember(arch, compressed_name) \/ output_path \in fs.dirs
    THEN [raised |-> TRUE, size |-> 0, fs |-> fs]
    ELSE IF ~CanDecompress(MemberOf(arch, compressed_name).frame)
    THEN [raised |-> TRUE, size |-> 0, fs |-> WriteFile(fs, output_path, <<>>)]
    ELSE LET data == Decompress(MemberOf(arch, compressed_name).frame)
         IN  [raised |-> FALSE, size |-> Len(data),
              fs |-> WriteFile(fs, output_path, data)]

\* extractor.py lines 99-136, one manifest entry: os.makedirs stands before
\* the try, the decompression and the statistics inside it.
\* [fatal, result, fs, stats]: fatal when the exception leaves the function.
extract_one_extractor(arch, file_info, fs, st) ==
    LET rel_path == file_info.path
        category == file_info.category
        dir == dirname(rel_path)
    IN  IF MakedirsFails(fs, dir)
        THEN [fatal |-> TRUE, result |-> "raised", fs |-> fs, stats |-> st]
        ELSE LET r == decompress_to(arch, rel_path \o ZstSuffix, rel_path,
                                    Makedirs(fs, dir))
                 counted == [st EXCEPT !.total_files = @ + 1,
                                       !.total_size = @ + r.size]
             IN  IF r.raised
                 THEN [fatal |-> FALSE, result |-> "error", fs |-> r.fs, stats |-> st]
                 ELSE IF category \notin Categories
                 THEN \* KeyError at line 125, after lines 123-124
                      [fatal |-> FALSE, result |-> "error", fs |-> r.fs,
                       stats |-> counted]
                 ELSE [fatal |-> FALSE, result |-> "ok", fs |-> r.fs,
                       stats |-> [counted EXCEPT
                                    !.categories[category].count = @ + 1,
                                    !.categories[category].size = @ + r.size]]

\* compressor.py lines 739-783, one manifest entry: nothing is caught.
extract_one_compressor(arch, file_info, fs, st) ==
    LET file_path == file_info.path
        category == file_info.category
        original_size == file_info.original_size
        compressed_size == file_info.compressed_size
        dir == dirname(file_path)
    IN  IF MakedirsFails(fs, dir)
        THEN [fatal |-> TRUE, result |-> "raised", fs |-> fs, stats |-> st]
        ELSE LET r == decompress_to(arch, file_path \o ZstSuffix, file_path,
                                    Makedirs(fs, dir))
             IN  IF r.raised
                 THEN [fatal |-> TRUE, result |-> "raised", fs |-> r.fs, stats |-> st]
                 ELSE [fatal |-> FALSE, result |-> "ok", fs |-> r.fs,
                       stats |-> AddToStats(st,
                                    IF category \in Categories
                                    THEN category ELSE "Sonstige",
                                    original_size, compressed_size)]

extract_one(impl, arch, file_info, fs, st) ==
    IF impl = "extractor"
    THEN extract_one_extractor(arch, file_info, fs, st)
    ELSE extract_one_compressor(arch, file_info, fs, st)

\* One iteration of the loop over metadata['files'] of either extractor.
ExtractNext(impl) ==
    /\ x_pc = "loop"
    /\ x_impl = impl
    /\ x_pos < Len(x_metadata.files)
    /\ LET s == extract_one(impl, x_archive, x_metadata.files[x_pos + 1],
                            output_dir, x_stats)
       IN  /\ output_dir' = s.fs
           /\ IF s.fatal
              THEN /\ x_pc' = "raised"
                   /\ x_temp' = rmtree("exists")
                   /\ UNCHANGED <<x_pos, x_results, x_stats>>
              ELSE /\ x_pos' = x_pos + 1
                   /\ x_results' = Append(x_results, s.result)
                   /\ x_stats' = s.stats
                   /\ UNCHANGED <<x_pc, x_temp>>
    /\ UNCHANGED <<x_impl, x_archive, x_metadata>>
    /\ UNCHANGED <<cl_vars, build_vars, mt_vars>>

ExtractNext_extractor == ExtractNext("extractor")

ExtractNext_compressor == ExtractNext("compressor")

\* The loop over metadata['files'] from entry k on, run to its end or to the
\* first exception that leaves the function.
RECURSIVE extract_all(_, _, _, _, _)
extract_all(impl, arch, files, k, acc) ==
    IF k > Len(files) \/ acc.fatal THEN acc
    ELSE LET s == extract_one(impl, arch, files[k], acc.fs, acc.stats)
         IN  extract_all(impl, arch, files, k + 1,
                         [fatal |-> s.fatal, fs |-> s.fs,
                          stats |-> IF s.fatal THEN acc.stats ELSE s.stats])

\* A whole call of extract_arcx_archive of one module on a container:
\* [fatal, fs, stats] with fs the output root afterwards.
run_extract(impl, arch) ==
    LET m == read_manifest(arch)
        start == [fatal |-> m.raised,
                  fs |-> [files |-> EmptyFiles, dirs |-> {}],
                  stats |-> IF impl = "extractor"
                            THEN InitialExtractStats ELSE InitialStats]
    IN  extract_all(impl, arch, m.metadata.files, 1, start)

\* After the loop: the summary is written, the stats are returned and the
\* finally clause removes the scratch directory.
ExtractReturn ==
    /\ x_pc = "loop"
    /\ x_pos = Len(x_metadata.files)
    /\ x_pc' = "returned"
    /\ x_temp' = rmtree("exists")
    /\ UNCHANGED <<x_impl, x_archive, x_metadata, x_pos, x_results, x_stats,
                   output_dir>>
    /\ UNCHANGED <<cl_vars, build_vars, mt_vars>>

Extractors == {"extractor", "compressor"}

Next ==
    \/ \E fault \in FaultPoints \cup {"none"} : CompressNext(fault)
    \/ WriteArchive
    \/ \E impl \in Extractors :
         \E kind \in ManifestChanges \cup EntryChanges :
           \E i \in 0..MaxFiles + 1 :
              ExtractOpen(impl, [kind |-> kind, entry |-> i])
    \/ ExtractNext_extractor
    \/ ExtractNext_compressor
    \/ ExtractReturn

Spec == Init /\ [][Next]_vars

(***************************************************************************)
(* Claims about the builder and the extractors                             *)
(***************************************************************************)
BuildDone == pc \in {"returned", "raised"}

ExtractDone == x_pc \in {"returned", "raised"}

AllCompressed == \A i \in DOMAIN outcome : outcome[i] = "none"

ManifestReadable(arch) ==
    HasManifestEntry(arch) /\ ManifestEntry(arch).kind = "json"

\* The entry's member is in the container and is a closed zstd frame.
MemberIntact(arch, entry) ==
    /\ HasMember(arch, entry.path \o ZstSuffix)
    /\ CanDecompress(MemberOf(arch, entry.path \o ZstSuffix).frame)

MemberBytes(arch, entry) == Decompress(MemberOf(arch, entry.path \o ZstSuffix).frame)

Written(path, data) ==
    path \in DOMAIN output_dir.files /\ output_dir.files[path] = data

(***************************************************************************)
(* C1  Round trip: for a source tree whose files all compress              *)
(* successfully, create_arcx_archive followed by extract_arcx_archive on   *)
(* the archive it wrote leaves, for every source file, a file at the same  *)
(* relative path under the output root with the original bytes.            *)
(***************************************************************************)
C1_RoundTrip ==
    (ExtractDone /\ x_archive = archive /\ AllCompressed) =>
        /\ x_pc = "returned"
        /\ \A i \in DOMAIN input_dir : Written(input_dir[i], Content(input_dir[i]))

\* A tree with a file in a sub-directory and an empty file, built and
\* extracted by extractor.py.
C1_Witness ==
    /\ x_pc = "returned"
    /\ x_impl = "extractor"
    /\ x_archive = archive
    /\ AllCompressed
    /\ input_dir = <<Universe[1], Universe[5]>>
    /\ Written(Universe[5], <<7, 7>>)

(***************************************************************************)
(* C2  Failure isolation: if exactly one of K discovered files is          *)
(* unreadable, the archive-building run completes with total_files = K-1   *)
(* and failed_files = 1 in the returned stats, and the container holds     *)
(* K-1 members plus the manifest.                                          *)
(***************************************************************************)
Unreadable == {"open_src", "copy"}

ExactlyOneUnreadable ==
    /\ Cardinality({ i \in DOMAIN outcome : outcome[i] \in Unreadable }) = 1
    /\ \A i \in DOMAIN outcome : outcome[i] \in Unreadable \cup {"none"}

C2_FailureIsolation ==
    (pc = "returned" /\ ExactlyOneUnreadable) =>
        /\ stats.total_files = Len(input_dir) - 1
        /\ "failed_files" \in DOMAIN stats
        /\ stats.failed_files = 1
        /\ Len(archive) = 1 + (Len(input_dir) - 1)

(***************************************************************************)
(* C4  Manifest completeness: for every archive produced, also when files  *)
(* fail at any point of compress_file, the non-manifest members of the     *)
(* container are exactly the names <path>.zst of the manifest's files.     *)
(***************************************************************************)
C4_ManifestCompleteness ==
    pc = "returned" =>
        LET files == ManifestEntry(archive).json.files
            members == { k \in DOMAIN archive : archive[k].name # ManifestName }
        IN  /\ { archive[k].name : k \in members }
                = { files[i].path \o ZstSuffix : i \in DOMAIN files }
            /\ Cardinality(members) = Len(files)

(***************************************************************************)
(* C7  Per-file error containment: a failure while processing one file     *)
(* (missing or corrupt member, unreadable source, unwritable destination)  *)
(* is caught at that file and every other file of the run is still         *)
(* processed, in the builder and in both extract_arcx_archive.             *)
(***************************************************************************)
C7_ErrorContainment ==
    /\ (BuildDone /\ \A i \in DOMAIN outcome : outcome[i] \in FaultPoints \cup {"none"})
          => (pc = "returned" /\ walk_pos = Len(input_dir))
    /\ (ExtractDone /\ ManifestReadable(x_archive)
            /\ \A i \in DOMAIN x_metadata.files :
                   ~MakedirsFails(output_dir, dirname(x_metadata.files[i].path)))
          => /\ x_pc = "returned"
             /\ x_pos = Len(x_metadata.files)
             /\ \A i \in DOMAIN x_metadata.files :
                   MemberIntact(x_archive, x_metadata.files[i])
                       => Written(x_metadata.files[i].path,
                                  MemberBytes(x_archive, x_metadata.files[i]))

(***************************************************************************)
(* C8  Version validation: when the manifest's version is not a            *)
(* recognized format version, or is absent, extraction fails before any    *)
(* file is decompressed into the output root.                              *)
(***************************************************************************)
RecognizedVersions == {"1.0"}

VersionRecognized(meta) ==
    "version" \in DOMAIN meta /\ meta.version \in RecognizedVersions

C8_VersionValidation ==
    (ExtractDone /\ ManifestReadable(x_archive)
        /\ ~VersionRecognized(ManifestEntry(x_archive).json))
      => (x_pc = "raised" /\ output_dir.files = EmptyFiles)

(***************************************************************************)
(* C9  Integrity check: when the decompressed byte count of a file differs *)
(* from the recorded original_size, the file is reported as an error and   *)
(* not counted as a plain success; the remaining files are still           *)
(* extracted.                                                              *)
(***************************************************************************)
C9_IntegrityCheck ==
    \A i \in 1..Len(x_results) :
        LET entry == x_metadata.files[i]
        IN  (MemberIntact(x_archive, entry)
                /\ Len(MemberBytes(x_archive, entry)) # entry.original_size)
              => x_results[i] = "error"

(***************************************************************************)
(* C10  Missing manifest is fatal: when the container has no               *)
(* arcx_metadata.json member, or it cannot be parsed, extract_arcx_archive *)
(* raises to its caller, returns no stats and has decompressed no file     *)
(* into the output root.                                                   *)
(***************************************************************************)
C10_MissingManifestFatal ==
    (x_pc # "idle" /\ ~ManifestReadable(x_archive)) =>
        /\ x_pc = "raised"
        /\ x_pos = 0
        /\ output_dir.files = EmptyFiles

\* compressor.extract_arcx_archive given a container that has members but
\* no manifest.
C10_Witness ==
    /\ x_pc = "raised"
    /\ x_impl = "compressor"
    /\ ~HasManifestEntry(x_archive)
    /\ Len(x_archive) = 2
    /\ output_dir.files = EmptyFiles

(***************************************************************************)
(* C11  Whole-run precondition: when the source root does not exist,       *)
(* create_arcx_archive and compress_directory_multithreaded fail before    *)
(* any unit work begins and do not complete normally: no archive is        *)
(* written and no zero-valued stats are returned as if the run had         *)
(* succeeded.                                                              *)
(***************************************************************************)
C11_MissingSourceRoot ==
    input_root = "missing" =>
        /\ pc # "returned"
        /\ archive = <<>>
        /\ mt_pc \notin {"returned", "archived"}

(***************************************************************************)
(* C12  Scratch cleanup: on every exit path of create_arcx_archive and of  *)
(* both extract_arcx_archive (normal return, per-file error, an exception  *)
(* raised after the scratch directory was created) the scratch directory   *)
(* has been removed when the operation returns or raises.                  *)
(***************************************************************************)
C12_ScratchCleanup ==
    /\ BuildDone => temp_dir.state = "removed"
    /\ ExtractDone => x_temp = "removed"

\* A build in which one file failed half-way through its copy, and
\* compressor.extract_arcx_archive raising at its second manifest entry.
C12_Witness ==
    /\ pc = "returned"
    /\ "copy" \in Range(outcome)
    /\ temp_dir.state = "removed"
    /\ x_pc = "raised"
    /\ x_impl = "compressor"
    /\ x_pos = 1
    /\ x_temp = "removed"

(***************************************************************************)
(* C13  Zero-file run: create_arcx_archive or                              *)
(* compress_directory_multithreaded on a source root with no files         *)
(* completes normally and returns stats whose total_files, failed_files,   *)
(* total sizes and every per-category counter are 0.                       *)
(***************************************************************************)
AllZero(st) ==
    /\ st.total_files = 0
    /\ st.total_original_size = 0
    /\ st.total_compressed_size = 0
    /\ \A c \in Categories : st.categories[c] = ZeroCategory
    /\ "failed_files" \in DOMAIN st
    /\ st.failed_files = 0

C13_ZeroFileRun ==
    /\ (BuildDone /\ input_dir = <<>>) => (pc = "returned" /\ AllZero(stats))
    /\ (mt_pc = "returned" /\ files_to_process = <<>>) => AllZero(mt_stats)

(***************************************************************************)
(* C14  Manifest mode field, as claimed: the manifest written by           *)
(* create_arcx_archive has compression_mode "automatic" when no override   *)
(* level is given and "manual" when one is given, and its top-level        *)
(* compression_level is the override level in manual mode and null in      *)
(* automatic mode.                                                         *)
(***************************************************************************)
C14_ModeField_claimed ==
    pc = "returned" =>
        LET m == ManifestEntry(archive).json
        IN  IF compression_level = None
            THEN m.compression_mode = "automatic" /\ m.compression_level = None
            ELSE m.compression_mode = "manual" /\ m.compression_level = compression_level

(***************************************************************************)
(* C14  Manifest mode field, amended: the manifest written by              *)
(* create_arcx_archive has compression_mode "automatic_by_type" when no    *)
(* override level is given and "manual" when one is given, and its         *)
(* top-level compression_level is the override level in manual mode and    *)
(* null in automatic mode.                                                 *)
(***************************************************************************)
C14_ModeField ==
    pc = "returned" =>
        LET m == ManifestEntry(archive).json
        IN  IF compression_level = None
            THEN m.compression_mode = "automatic_by_type" /\ m.compression_level = None
            ELSE m.compression_mode = "manual" /\ m.compression_level = compression_level

\* An archive of two files written with no override level.
C14_Witness ==
    /\ pc = "returned"
    /\ compression_level = None
    /\ Len(input_dir) = 2
    /\ ManifestEntry(archive).json.compression_mode = "automatic_by_type"
    /\ ManifestEntry(archive).json.compression_level = None

(***************************************************************************)
(* C17  No early abort in the sequential builder: create_arcx_archive      *)
(* attempts every file discovered by the walk; a failure on one file,      *)
(* including a failure to create its scratch sub-directory, never keeps    *)
(* the later files from being compressed nor the container from being      *)
(* written.                                                                *)
(***************************************************************************)
C17_NoEarlyAbort ==
    BuildDone =>
        /\ pc = "returned"
        /\ Len(outcome) = Len(input_dir)
        /\ HasManifestEntry(archive)
        /\ \A i \in DOMAIN outcome :
              outcome[i] = "none" => HasMember(archive, input_dir[i] \o ZstSuffix)

(***************************************************************************)
(* C22  Symmetric statistics: for an archive built by create_arcx_archive, *)
(* extracting it yields stats whose total_files, total original bytes and  *)
(* per-category counts and original bytes equal those the build returned,  *)
(* for both extract_arcx_archive.                                          *)
(***************************************************************************)
C22_SymmetricStats ==
    (pc = "returned" /\ x_pc = "returned" /\ x_archive = archive) =>
        /\ x_stats.total_files = stats.total_files
        /\ \A c \in Categories :
              x_stats.categories[c].count = stats.categories[c].count
        /\ IF x_impl = "extractor"
           THEN /\ x_stats.total_size = stats.total_original_size
                /\ \A c \in Categories :
                      x_stats.categories[c].size = stats.categories[c].original_size
           ELSE /\ x_stats.total_original_size = stats.total_original_size
                /\ \A c \in Categories :
                      x_stats.categories[c].original_size
                          = stats.categories[c].original_size

\* Three files of which one failed half-way through its copy; the archive
\* extracted by extractor.py.
C22_Witness ==
    /\ pc = "returned"
    /\ x_pc = "returned"
    /\ x_impl = "extractor"
    /\ x_archive = archive
    /\ "copy" \in Range(outcome)
    /\ stats.total_files = 2
    /\ x_stats.total_files = 2
    /\ x_stats.total_size > 0

(***************************************************************************)
(* C23  Container layout: every produced container holds exactly one       *)
(* entry named arcx_metadata.json, it is the first entry written, and it   *)
(* is written once, after the files list is complete: the manifest in the  *)
(* container is the final files list, with a record for every file that    *)
(* was compressed.                                                         *)
(***************************************************************************)
C23_ContainerLayout ==
    archive # <<>> =>
        /\ archive[1].name = ManifestName
        /\ Cardinality({ k \in DOMAIN archive : archive[k].name = ManifestName }) = 1
        /\ archive[1].json = metadata
        /\ pc = "returned" =>
              \A i \in DOMAIN input_dir :
                 outcome[i] = "none" =>
                    \E k \in DOMAIN archive[1].json.files :
                        archive[1].json.files[k].path = input_dir[i]

\* The container of a three-file tree: the manifest and three members.
C23_Witness ==
    /\ pc = "returned"
    /\ Len(input_dir) = 3
    /\ AllCompressed
    /\ Len(archive) = 4
    /\ archive[1].name = ManifestName
    /\ Len(archive[1].json.files) = 3

(***************************************************************************)
(* C24  Distinct paths and unshared destinations: within one run the       *)
(* relative paths of the discovered files are pairwise distinct, the       *)
(* manifest never holds two records with the same path, no two units are   *)
(* given the same output location <relative path>.zst, and no unit's       *)
(* output file is the path of another unit's output directory.             *)
(***************************************************************************)
\* temp_output_path of the i-th walked file (line 276).
OutputOf(i) == input_dir[i] \o ZstSuffix

C24_UnsharedDestinations ==
    /\ \A i, j \in 1..walk_pos :
          i # j =>
             /\ input_dir[i] # input_dir[j]
             /\ OutputOf(i) # OutputOf(j)
             /\ OutputOf(i) \notin Ancestors(dirname(OutputOf(j)))
    /\ \A i, j \in DOMAIN metadata.files :
          i # j => metadata.files[i].path # metadata.files[j].path

(***************************************************************************)
(* C25  One level per file: in create_arcx_archive one compression level   *)
(* is resolved for each file, and the compression_level of the file's      *)
(* manifest record is the level the codec was given for that file: the     *)
(* override in manual mode, the default of the file's category otherwise.  *)
(***************************************************************************)
C25_OneLevelPerFile ==
    pc = "returned" =>
        LET files == ManifestEntry(archive).json.files
        IN  \A i \in DOMAIN files :
                LET rec == files[i]
                    frame == MemberOf(archive, rec.path \o ZstSuffix).frame
                IN  /\ rec.compression_level \in Levels
                    /\ frame.level = rec.compression_level
                    /\ rec.compression_level =
                          IF compression_level = None
                          THEN DefaultLevelOf(rec.category)
                          ELSE compression_level

\* b.png and v.ogg archived once with the override 9 ...
C25_Witness ==
    /\ pc = "returned"
    /\ compression_level = 9
    /\ input_dir = <<Universe[2], Universe[3]>>
    /\ AllCompressed
    /\ MemberOf(archive, Universe[2] \o ZstSuffix).frame.level = 9
    /\ ManifestEntry(archive).json.files[2].compression_level = 9

(***************************************************************************)
(* C27  The two extractors agree: on a container whose manifest is         *)
(* readable and whose listed members are all intact, extractor.py and      *)
(* compressor.extract_arcx_archive both return, write the same files with  *)
(* the same bytes and report the same total_files; when a member is        *)
(* missing or corrupt, they still write the same files for the other,      *)
(* intact entries.                                                         *)
(***************************************************************************)
OtherExtractor == IF x_impl = "extractor" THEN "compressor" ELSE "extractor"

AllMembersIntact ==
    \A i \in DOMAIN x_metadata.files : MemberIntact(x_archive, x_metadata.files[i])

C27_ExtractorsAgree ==
    (ExtractDone /\ ManifestReadable(x_archive)) =>
        LET other == run_extract(OtherExtractor, x_archive)
        IN  /\ AllMembersIntact =>
                  /\ x_pc = "returned"
                  /\ ~other.fatal
                  /\ other.fs.files = output_dir.files
                  /\ other.stats.total_files = x_stats.total_files
            /\ \A i \in DOMAIN x_metadata.files :
                  MemberIntact(x_archive, x_metadata.files[i]) =>
                     (x_metadata.files[i].path \in DOMAIN output_dir.files
                        <=> x_metadata.files[i].path \in DOMAIN other.fs.files)

(***************************************************************************)
(* C28  Output containment: for every manifest, also one whose paths are   *)
(* absolute or hold a '..' component, extraction creates directories and   *)
(* files only under the output root, and every file it writes is named by  *)
(* an entry of the manifest.                                               *)
(***************************************************************************)
\* A path that os.path.join(output_dir, p) places outside output_dir: an
\* absolute one, or one that goes on after a '..' component.
Outside(p) ==
    \/ Len(p) >= 1 /\ p[1] = "/"
    \/ \E i \in 1..Len(p) :
          /\ i + 2 <= Len(p)
          /\ p[i] = "." /\ p[i + 1] = "." /\ p[i + 2] = "/"
          /\ (i = 1 \/ p[i - 1] = "/")

C28_OutputContainment ==
    /\ \A p \in output_dir.dirs \cup DOMAIN output_dir.files : ~Outside(p)
    /\ \A p \in DOMAIN output_dir.files :
          \E i \in DOMAIN x_metadata.files : x_metadata.files[i].path = p

(***************************************************************************)
(* compressor.compress_directory_multithreaded (lines 415-672)             *)
(***************************************************************************)
\* Most files in the work list of a multithreaded run.
MaxTasks == 2

\* The files a multithreaded run draws its tree from: a, b.png and a.zst/b
\* (two categories, two files of one category, and a file next to a
\* directory named like its output).
MtPool == {1, 2, 4}

MtTrees == { S \in SUBSET MtPool : Cardinality(S) <= MaxTasks }

ThreadCounts == {1, 2, 8}

\* lines 450-463 (processing_time, a wall-clock reading, is left out)
InitialMtStats ==
    [ total_files |-> 0,
      failed_files |-> 0,
      total_original_size |-> 0,
      total_compressed_size |-> 0,
      categories |-> [c \in Categories |-> ZeroCategory] ]

NoSnap == [total_files |-> 0, total_original_size |-> 0,
           total_compressed_size |-> 0, category |-> ZeroCategory,
           failed_files |-> 0]

NewTask ==
    [ pc |-> "queued", outcome |-> "none", original_size |-> 0,
      compressed_size |-> 0, snap |-> NoSnap ]

Tasks == DOMAIN task

MtFaults(t) == Cardinality({ i \in DOMAIN t : t[i].outcome \in FaultPoints \cup {"log"} })

InitMT ==
    /\ ClassifyIdle
    /\ BuildIdle
    /\ ExtractIdle
    /\ mt_pc = "pool"
    /\ input_root \in Roots
    /\ \E S \in MtTrees : files_to_process = os_walk(input_root, S)
    /\ num_threads \in ThreadCounts
    /\ task = [i \in 1..Len(files_to_process) |-> NewTask]
    /\ stats_lock = 0
    /\ error_log_lock = 0
    /\ completed_lock = 0
    /\ mt_stats = InitialMtStats
    /\ completed_files = 0
    /\ error_log = <<>>
    /\ mt_output_dir = [files |-> EmptyFiles, dirs |-> {}]

MtFrame == UNCHANGED <<cl_vars, build_vars, x_vars, mt_pc, files_to_process, num_threads>>

Busy(i) == task[i].pc \notin {"queued", "done"}

\* A worker thread of the pool takes the next queued work item.
StartTask(i) ==
    /\ mt_pc = "pool"
    /\ task[i].pc = "queued"
    /\ \A j \in Tasks : j < i => task[j].pc # "queued"
    /\ Cardinality({ j \in Tasks : Busy(j) }) < num_threads
    /\ task' = [task EXCEPT ![i].pc = "makedirs"]
    /\ UNCHANGED <<stats_lock, error_log_lock, completed_lock, mt_stats,
                   completed_files, error_log, mt_output_dir>>
    /\ MtFrame

\* process_file lines 486-487: os.makedirs before the try.
MakeOutputDir(i) ==
    /\ task[i].pc = "makedirs"
    /\ LET dir == dirname(files_to_process[i] \o ZstSuffix)
       IN  IF MakedirsFails(mt_output_dir, dir)
           THEN /\ task' = [task EXCEPT ![i].pc = "cb_exception",
                                        ![i].outcome = "makedirs"]
                /\ UNCHANGED mt_output_dir
           ELSE /\ task' = [task EXCEPT ![i].pc = "compress"]
                /\ mt_output_dir' = Makedirs(mt_output_dir, dir)
    /\ UNCHANGED <<stats_lock, error_log_lock, completed_lock, mt_stats,
                   completed_files, error_log>>
    /\ MtFrame

\* process_file lines 490-503: the category and compress_file.
CompressTask(i, fault) ==
    /\ task[i].pc = "compress"
    /\ fault # "none" => MtFaults(task) < MaxFaults
    /\ LET rel_path == files_to_process[i]
           output_path == rel_path \o ZstSuffix
           r == compress_file(rel_path, output_path, compression_level, fault,
                              mt_output_dir)
       IN  /\ mt_output_dir' = r.fs
           /\ IF r.raised
              THEN /\ fault = "none" => output_path \in mt_output_dir.dirs
                   /\ task' = [task EXCEPT
                                 ![i].pc = "except",
                                 ![i].outcome = IF fault = "none" THEN "isdir" ELSE fault]
              ELSE task' = [task EXCEPT
                              ![i].pc = "lock_stats",
                              ![i].original_size = r.original_size,
                              ![i].compressed_size = r.compressed_size]
    /\ UNCHANGED <<stats_lock, error_log_lock, completed_lock, mt_stats,
                   completed_files, error_log>>
    /\ MtFrame

\* `with stats_lock:` finds the lock taken or not at all.
stats_lock_ignored == TRUE

\* threading.Lock: `with stats_lock:` proceeds when no thread holds it.
stats_lock_free == stats_lock = 0

\* line 506
LockStats(i) ==
    /\ task[i].pc = "lock_stats"
    /\ stats_lock_free
    /\ stats_lock' = i
    /\ task' = [task EXCEPT ![i].pc = "load_stats"]
    /\ UNCHANGED <<error_log_lock, completed_lock, mt_stats, completed_files,
                   error_log, mt_output_dir>>
    /\ MtFrame

\* Lines 507-512: each `+=` on the dict reads the counter and writes it
\* back.  The reads of the six statements ...
LoadStats(i) ==
    /\ task[i].pc = "load_stats"
    /\ LET category == category_of(files_to_process[i])
       IN  task' = [task EXCEPT
                ![i].pc = "store_stats",
                ![i].snap = [ total_files |-> mt_stats.total_files,
                              total_original_size |-> mt_stats.total_original_size,
                              total_compressed_size |-> mt_stats.total_compressed_size,
                              category |-> mt_stats.categories[category],
                              failed_files |-> 0 ]]
    /\ UNCHANGED <<stats_lock, error_log_lock, completed_lock, mt_stats,
                   completed_files, error_log, mt_output_dir>>
    /\ MtFrame

\* ... and their writes.
StoreStats(i) ==
    /\ task[i].pc = "store_stats"
    /\ LET category == category_of(files_to_process[i])
           t == task[i]
       IN  mt_stats' = [mt_stats EXCEPT
                !.total_files = t.snap.total_files + 1,
                !.total_original_size = t.snap.total_original_size + t.original_size,
                !.total_compressed_size = t.snap.total_compressed_size + t.compressed_size,
                !.categories[category] =
                    [ count |-> t.snap.category.count + 1,
                      original_size |-> t.snap.category.original_size + t.original_size,
                      compressed_size |-> t.snap.category.compressed_size + t.compressed_size ]]
    /\ task' = [task EXCEPT ![i].pc = "log_result", ![i].snap = NoSnap]
    /\ UNCHANGED <<stats_lock, error_log_lock, completed_lock, completed_files,
                   error_log, mt_output_dir>>
    /\ MtFrame

\* A critical section that is left without releasing stats_lock.
LogResult_holding(i, fails) ==
    /\ task[i].pc = "log_result"
    /\ fails => MtFaults(task) < MaxFaults
    /\ task' = IF fails
               THEN [task EXCEPT ![i].pc = "except", ![i].outcome = "log"]
               ELSE [task EXCEPT ![i].pc = "callback"]
    /\ UNCHANGED <<stats_lock, error_log_lock, completed_lock, mt_stats,
                   completed_files, error_log, mt_output_dir>>
    /\ MtFrame

\* Lines 514-519: the line appended to the result log inside the critical
\* section, then the lock released and (True, None) returned; when the
\* append fails the lock is released and the except clause is entered.
LogResult(i, fails) ==
    /\ task[i].pc = "log_result"
    /\ fails => MtFaults(task) < MaxFaults
    /\ stats_lock' = 0
    /\ task' = IF fails
               THEN [task EXCEPT ![i].pc = "except", ![i].outcome = "log"]
               ELSE [task EXCEPT ![i].pc = "callback"]
    /\ UNCHANGED <<error_log_lock, completed_lock, mt_stats, completed_files,
                   error_log, mt_output_dir>>
    /\ MtFrame

\* line 526
LockErrorLog(i) ==
    /\ task[i].pc = "except"
    /\ error_log_lock = 0
    /\ error_log_lock' = i
    /\ task' = [task EXCEPT ![i].pc = "load_failed"]
    /\ UNCHANGED <<stats_lock, completed_lock, mt_stats, completed_files,
                   error_log, mt_output_dir>>
    /\ MtFrame

\* line 527: stats['failed_files'] += 1, the read ...
LoadFailed(i) ==
    /\ task[i].pc = "load_failed"
    /\ task' = [task EXCEPT ![i].pc = "store_failed",
                            ![i].snap = [NoSnap EXCEPT !.failed_files = mt_stats.failed_files]]
    /\ UNCHANGED <<stats_lock, error_log_lock, completed_lock, mt_stats,
                   completed_files, error_log, mt_output_dir>>
    /\ MtFrame

\* ... and the write; lines 529-540: the error log entry, the lock released,
\* (False, error_msg) returned.
StoreFailed(i) ==
    /\ task[i].pc = "store_failed"
    /\ mt_stats' = [mt_stats EXCEPT !.failed_files = task[i].snap.failed_files + 1]
    /\ error_log' = Append(error_log, files_to_process[i])
    /\ error_log_lock' = 0
    /\ task' = [task EXCEPT ![i].pc = "callback", ![i].snap = NoSnap]
    /\ UNCHANGED <<stats_lock, completed_lock, completed_files, mt_output_dir>>
    /\ MtFrame

\* task_done_callback lines 563-572: future.result() returned; the progress
\* counter under completed_lock.
Callback(i) ==
    /\ task[i].pc = "callback"
    /\ completed_lock = 0
    /\ completed_lock' = i
    /\ completed_files' = completed_files + 1
    /\ task' = [task EXCEPT ![i].pc =
            IF completed_files' % 10 = 0 \/ completed_files' = Len(files_to_process)
            THEN "callback_progress" ELSE "callback_release"]
    /\ UNCHANGED <<stats_lock, error_log_lock, mt_stats, error_log, mt_output_dir>>
    /\ MtFrame

\* lines 578-584: failed_files read under stats_lock, for the progress line
CallbackProgress(i) ==
    /\ task[i].pc = "callback_progress"
    /\ stats_lock_free
    /\ task' = [task EXCEPT ![i].pc = "callback_release"]
    /\ UNCHANGED <<stats_lock, error_log_lock, completed_lock, mt_stats,
                   completed_files, error_log, mt_output_dir>>
    /\ MtFrame

\* leaving `with completed_lock:`
CallbackRelease(i) ==
    /\ task[i].pc = "callback_release"
    /\ completed_lock' = 0
    /\ task' = [task EXCEPT ![i].pc = "done"]
    /\ UNCHANGED <<stats_lock, error_log_lock, mt_stats, completed_files,
                   error_log, mt_output_dir>>
    /\ MtFrame

CallbackErrorName ==
    <<"C", "A", "L", "L", "B", "A", "C", "K", "-", "F", "E", "H", "L", "E", "R">>

\* An exception branch that also counts the failure in the statistics.
CallbackException_counting(i) ==
    /\ task[i].pc = "cb_exception"
    /\ error_log_lock = 0
    /\ error_log' = Append(error_log, CallbackErrorName)
    /\ mt_stats' = [mt_stats EXCEPT !.failed_files = @ + 1]
    /\ task' = [task EXCEPT ![i].pc = "done"]
    /\ UNCHANGED <<stats_lock, error_log_lock, completed_lock,
                   completed_files, mt_output_dir>>
    /\ MtFrame

\* task_done_callback lines 585-596: future.result() re-raised what escaped
\* process_file; an entry in the error log under error_log_lock.
CallbackException(i) ==
    /\ task[i].pc = "cb_exception"
    /\ error_log_lock = 0
    /\ error_log' = Append(error_log, CallbackErrorName)
    /\ task' = [task EXCEPT ![i].pc = "done"]
    /\ UNCHANGED <<stats_lock, error_log_lock, completed_lock, mt_stats,
                   completed_files, mt_output_dir>>
    /\ MtFrame

\* Lines 609-672: wait(futures), the executor shut down, the summary
\* written, stats returned.
ReturnStats ==
    /\ mt_pc = "pool"
    /\ \A i \in Tasks : task[i].pc = "done"
    /\ mt_pc' = "returned"
    /\ UNCHANGED <<cl_vars, build_vars, x_vars, files_to_process, num_threads,
                   task, stats_lock, error_log_lock, completed_lock, mt_stats,
                   completed_files, error_log, mt_output_dir>>

\* main lines 931-938: the manifest of the multithreaded archive path.
MainMetadata(level, threads) ==
    [ version |-> "1.0",
      created |-> "now",
      compression_level |-> level,
      threads_used |-> threads,
      files |-> <<>> ]

\* main lines 941-974: one record per '.zst' file found in the scratch
\* directory, its path with the last four characters cut off, the sizes
\* read back from the two files.
MainRecords(fs) ==
    LET IsZst(n) == Len(n) >= 4 /\ SubSeq(n, Len(n) - 3, Len(n)) = ZstSuffix
        names == SelectSeq(ScratchWalk(fs), IsZst)
    IN  [k \in 1..Len(names) |->
            LET rel_path == SubSeq(names[k], 1, Len(names[k]) - 4)
            IN  [ path |-> rel_path,
                  category |-> category_of(rel_path),
                  original_size |-> Len(Content(rel_path)),
                  compressed_size |-> FrameSize(fs.files[names[k]]) ]]

\* main lines 918-1006 after compress_directory_multithreaded returned into
\* main's scratch directory: the manifest is rebuilt from the files found
\* there, the container is written and the scratch directory removed.
MainArchive ==
    /\ mt_pc = "returned"
    /\ metadata' = [MainMetadata(compression_level, num_threads)
                        EXCEPT !.files = MainRecords(mt_output_dir)]
    /\ archive' = ZipOf(metadata', mt_output_dir)
    /\ mt_output_dir' = IF rmtree("exists") = "removed"
                        THEN [files |-> EmptyFiles, dirs |-> {}]
                        ELSE mt_output_dir
    /\ mt_pc' = "archived"
    /\ UNCHANGED <<pc, input_root, input_dir, compression_level, walk_pos,
                   outcome, temp_dir, stats>>
    /\ UNCHANGED <<files_to_process, num_threads, task, stats_lock,
                   error_log_lock, completed_lock, mt_stats, completed_files,
                   error_log>>
    /\ UNCHANGED <<cl_vars, x_vars>>

NextMT ==
    \/ \E i \in Tasks : StartTask(i)
    \/ \E i \in Tasks : MakeOutputDir(i)
    \/ \E i \in Tasks : \E fault \in FaultPoints \cup {"none"} : CompressTask(i, fault)
    \/ \E i \in Tasks : LockStats(i)
    \/ \E i \in Tasks : LoadStats(i)
    \/ \E i \in Tasks : StoreStats(i)
    \/ \E i \in Tasks : \E fails \in BOOLEAN : LogResult(i, fails)
    \/ \E i \in Tasks : LockErrorLog(i)
    \/ \E i \in Tasks : LoadFailed(i)
    \/ \E i \in Tasks : StoreFailed(i)
    \/ \E i \in Tasks : Callback(i)
    \/ \E i \in Tasks : CallbackProgress(i)
    \/ \E i \in Tasks : CallbackRelease(i)
    \/ \E i \in Tasks : CallbackException(i)
    \/ ReturnStats
    \/ MainArchive

SpecMT == InitMT /\ [][NextMT]_vars

\* The pool's threads are scheduled by the operating system: while some
\* thread can take a step, a step is eventually taken.
SpecMTFair == SpecMT /\ WF_vars(NextMT)

(***************************************************************************)
(* C3  Aggregation under concurrency: for a fixed tree and fixed per-file  *)
(* outcomes, compress_directory_multithreaded returns the same             *)
(* total_files, total_original_size, total_compressed_size and             *)
(* failed_files for every worker count and every interleaving.             *)
(***************************************************************************)
RECURSIVE SumOf(_, _)
SumOf(S, f) ==
    IF S = {} THEN 0
    ELSE LET x == CHOOSE y \in S : TRUE
         IN  f[x] + SumOf(S \ {x}, f)

\* The files whose compress_file returned: their statistics are added.
CountedTasks == { i \in Tasks : task[i].outcome \in {"none", "log"} }

\* The files that entered the except clause of process_file.
FailedTasks == { i \in Tasks : task[i].outcome \in FaultPoints \cup {"log", "isdir"} }

\* The totals as the per-file outcomes alone determine them.
C3_Aggregation ==
    mt_pc = "returned" =>
        /\ mt_stats.total_files = Cardinality(CountedTasks)
        /\ mt_stats.total_original_size
             = SumOf(CountedTasks, [i \in Tasks |-> Len(Content(files_to_process[i]))])
        /\ mt_stats.total_compressed_size
             = SumOf(CountedTasks, [i \in Tasks |-> task[i].compressed_size])
        /\ mt_stats.failed_files = Cardinality(FailedTasks)

\* Two files compressed by two or more workers, one of them failed.
C3_Witness ==
    /\ mt_pc = "returned"
    /\ num_threads = 8
    /\ Len(files_to_process) = 2
    /\ mt_stats.total_files = 1
    /\ mt_stats.failed_files = 1

(***************************************************************************)
(* C15  Manifest record shape: in every archive produced, by               *)
(* create_arcx_archive and by the multithreaded archive path alike, every  *)
(* entry of the manifest's files list carries path, category,              *)
(* compression_level, original_size and compressed_size.                   *)
(***************************************************************************)
RecordFields ==
    {"path", "category", "compression_level", "original_size", "compressed_size"}

C15_RecordShape ==
    HasManifestEntry(archive) =>
        LET files == ManifestEntry(archive).json.files
        IN  \A i \in DOMAIN files : RecordFields \subseteq DOMAIN files[i]

(***************************************************************************)
(* C16  Completion barrier: when compress_directory_multithreaded returns, *)
(* every discovered file has been recorded exactly once, as a success      *)
(* (total_files) or as a failure (failed_files), so their sum is the       *)
(* number of discovered files, wherever a unit fails: also at the          *)
(* directory creation before the try and at the result-log write inside    *)
(* the stats critical section.                                             *)
(***************************************************************************)
C16_CompletionBarrier ==
    mt_pc = "returned" =>
        mt_stats.total_files + mt_stats.failed_files = Len(files_to_process)

(***************************************************************************)
(* C18  Single serialization point: every write to a stats counter and     *)
(* every read of one is made holding one and the same lock, so no two      *)
(* threads are ever inside an access to the stats dict at the same time.   *)
(***************************************************************************)
\* The positions of process_file between the read and the write of a `+=`
\* on the stats dict (lines 507-512 and line 527).
InStatsAccess(i) ==
    task[i].pc \in {"load_stats", "store_stats", "load_failed", "store_failed"}

C18_SingleSerializationPoint ==
    \A i, j \in Tasks : (i # j /\ InStatsAccess(i)) => ~InStatsAccess(j)

(***************************************************************************)
(* C19  Stats consistency: in the stats returned by compression and by     *)
(* extraction the per-category counts add up to total_files and the        *)
(* per-category sizes to the matching total size, for every input, also    *)
(* an extraction whose manifest carries a category outside the five known  *)
(* ones.                                                                   *)
(***************************************************************************)
CategorySum(st, field) ==
    SumOf(Categories, [c \in Categories |-> st.categories[c][field]])

SizesConsistent(st) ==
    /\ CategorySum(st, "count") = st.total_files
    /\ CategorySum(st, "original_size") = st.total_original_size
    /\ CategorySum(st, "compressed_size") = st.total_compressed_size

C19_StatsConsistency ==
    /\ pc = "returned" => SizesConsistent(stats)
    /\ mt_pc = "returned" => SizesConsistent(mt_stats)
    /\ (x_pc = "returned" /\ x_impl = "compressor") => SizesConsistent(x_stats)
    /\ (x_pc = "returned" /\ x_impl = "extractor") =>
            /\ CategorySum(x_stats, "count") = x_stats.total_files
            /\ CategorySum(x_stats, "size") = x_stats.total_size

(***************************************************************************)
(* C20  Error records: every unit that fails during a compression run      *)
(* leaves exactly one error record (its path and the error) in the run's   *)
(* error log, so the number of error records equals failed_files and a     *)
(* run with a failed file ends with a non-empty error log.                 *)
(***************************************************************************)
\* The units that did not end as a plain success.
FailedUnits == { i \in Tasks : task[i].outcome # "none" }

RecordsOf(i) == { k \in DOMAIN error_log : error_log[k] = files_to_process[i] }

C20_ErrorRecords ==
    mt_pc = "returned" =>
        /\ \A i \in FailedUnits : Cardinality(RecordsOf(i)) = 1
        /\ Len(error_log) = mt_stats.failed_files
        /\ FailedUnits # {} => error_log # <<>>

(***************************************************************************)
(* C29  Builder totals match the manifest: in every archive that           *)
(* create_arcx_archive or the multithreaded archive path of main writes,   *)
(* the number of manifest records equals total_files of the run's stats    *)
(* and the sums of the records' original_size and compressed_size equal    *)
(* total_original_size and total_compressed_size, also when a unit failed  *)
(* after its output file was created.                                      *)
(***************************************************************************)
ManifestMatches(meta, st) ==
    LET recs == DOMAIN meta.files
    IN  /\ Len(meta.files) = st.total_files
        /\ SumOf(recs, [k \in recs |-> meta.files[k].original_size])
              = st.total_original_size
        /\ SumOf(recs, [k \in recs |-> meta.files[k].compressed_size])
              = st.total_compressed_size

C29_TotalsMatchManifest ==
    /\ pc = "returned" => ManifestMatches(ManifestEntry(archive).json, stats)
    /\ mt_pc = "archived" => ManifestMatches(ManifestEntry(archive).json, mt_stats)

(***************************************************************************)
(* C21  Progress is advisory: no step of task_done_callback, on its        *)
(* normal path, its progress branch or its exception branch, changes the   *)
(* statistics or anything in the output directory; the statistics          *)
(* returned are those the worker functions left, whenever the callbacks    *)
(* ran.                                                                    *)
(***************************************************************************)
CallbackPcs == {"callback", "callback_progress", "callback_release", "cb_exception"}

\* A step taken by the callback of some task.
CallbackStep ==
    \E i \in Tasks : task[i].pc \in CallbackPcs /\ task'[i].pc # task[i].pc

C21_ProgressAdvisory ==
    [][CallbackStep => UNCHANGED <<mt_stats, mt_output_dir>>]_vars

\* A run that returned after one callback took its exception branch and
\* another counted a compressed file.
C21_Witness ==
    /\ mt_pc = "returned"
    /\ \E k \in DOMAIN error_log : error_log[k] = CallbackErrorName
    /\ completed_files = 1
    /\ mt_stats.total_files = 1

(***************************************************************************)
(* C26  Deadlock freedom: workers and callbacks take the three locks in    *)
(* one order (a thread that holds stats_lock or error_log_lock waits for   *)
(* no lock, a thread that holds completed_lock waits for stats_lock at     *)
(* most), no thread waits for a lock it holds itself, and every run of     *)
(* compress_directory_multithreaded eventually returns.                    *)
(***************************************************************************)
\* The lock a thread is about to acquire at its position.
WaitsFor(i) ==
    CASE task[i].pc \in {"lock_stats", "callback_progress"} -> "stats_lock"
      [] task[i].pc \in {"except", "cb_exception"} -> "error_log_lock"
      [] task[i].pc = "callback" -> "completed_lock"
      [] OTHER -> "none"

HolderOf(lock) ==
    CASE lock = "stats_lock" -> stats_lock
      [] lock = "error_log_lock" -> error_log_lock
      [] lock = "completed_lock" -> completed_lock
      [] OTHER -> 0

LockOrder ==
    \A i \in Tasks :
        /\ (stats_lock = i \/ error_log_lock = i) => WaitsFor(i) = "none"
        /\ completed_lock = i => WaitsFor(i) \in {"none", "stats_lock"}

NoSelfWait == \A i \in Tasks : HolderOf(WaitsFor(i)) # i

C26_DeadlockFreedom ==
    /\ [](LockOrder /\ NoSelfWait)
    /\ <>(mt_pc = "returned")

\* Two worker threads at the aggregation boundary: one inside the critical
\* section of stats_lock, the other waiting for it.
C26_Witness ==
    \E i, j \in Tasks :
        /\ i # j
        /\ task[i].pc = "lock_stats"
        /\ stats_lock = j
        /\ task[j].pc = "store_stats"

=============================================================================
